---- MODULE Spec2Model ----
(***************************************************************************)
(* Model of src/app.py: the Korean word normalizer (normalize_word), the   *)
(* stop-pattern filter (is_stop_pattern), the frequency aggregator         *)
(* (get_top_words_fast) and the substring search (search_word_in_bible).   *)
(*                                                                         *)
(* A Python str is modelled as a sequence of characters.  A Hangul         *)
(* syllable is written as its romanisation, one TLA+ string per syllable:  *)
(*   이 i    르 reu  시 si   되 doe  가 ga   라 ra   사 sa   대 dae       *)
(*   람 ram  들 deul 자 ja   위 wi   하 ha   것 geot 너 neo  희 hui       *)
(*   는 neun 내 nae  네 ne   그 geu  저 jeo  나 na   우 u    리 ri        *)
(*   있 iss  다 da   어 eo   니 ni   에 e    더 deo  로 ro   께 kke       *)
(*   서 seo  게 ge   으 eu   고 go   까 kka  지 ji   부 bu   터 teo       *)
(*   은 eun  을 eul  를 reul 의 ui   와 wa   과 gwa  도 do   여 yeo       *)
(*   매 mae  누 nu   등 deung 중 jung 뿐 ppun 쯤 jjeum 님 nim  랑 rang    *)
(*   창 chang 세 se  기 gi   복 bok  음 eum  알 al   수 su   없 eops      *)
(* The other characters are " " (space), "," and "." (punctuation) and     *)
(* "+" (the search delimiter).                                             *)
(***************************************************************************)
EXTENDS Integers, Sequences, FiniteSets, TLC

VARIABLES
    pc,             \* position of the running call
    df,             \* the DataFrame argument: a sequence of rows
    n,              \* get_top_words_fast: the argument n, read at line 142 only
    raw_words,      \* get_top_words_fast: re.findall(r'\w+', full_text)
    raw_counter,    \* get_top_words_fast: Counter(raw_words), in insertion order
    final_counter,  \* get_top_words_fast: the frequency table, in insertion order
    idx,            \* position of the running for loop (item / row index)
    top_words,      \* get_top_words_fast: the returned list
    query,          \* search_word_in_bible: the argument keyword, as passed
    keyword,        \* search_word_in_bible: keyword after strip()
    keywords,       \* search_word_in_bible: the pieces of an A+B query
    count,          \* search_word_in_bible: the running / returned count
    results,        \* search_word_in_bible: the running / returned passages
    mode,           \* search_word_in_bible: the returned mode
    word,           \* normalize_word: the argument
    stem            \* normalize_word: the returned value

vars == <<pc, df, n, raw_words, raw_counter, final_counter, idx, top_words,
          query, keyword, keywords, count, results, mode, word, stem>>

-----------------------------------------------------------------------------
(* Bounds of the model *)

\* longest word handed to normalize_word on its own
MaxWordLen == 5
\* most tokens in the verses handed to get_top_words_fast
MaxTokens == 3
\* most tokens in those verses when they are drawn from the wide pool
WideTokens == 2
\* most tokens per verse in those verses
VerseTokens == 2
\* largest n handed to get_top_words_fast
MaxN == 3
\* most rows of the DataFrame handed to search_word_in_bible
MaxVerses == 2
\* most characters of all the verse texts handed to search_word_in_bible
MaxChars == 3
\* longest query handed to search_word_in_bible
MaxQueryLen == 3
\* the rows of those verses that are of a book of ALL_BOOKS_ORDER; the rows
\* behind them are of a book outside it
KnownRows == 1

-----------------------------------------------------------------------------
(* str helpers *)

Range(s) == {s[i] : i \in DOMAIN s}

\* all sequences over S of length at most k
SeqsUpTo(S, k) == UNION {[1..m -> S] : m \in 0..k}

\* word.endswith(suffix)
EndsWith(w, s) ==
    /\ Len(s) <= Len(w)
    /\ SubSeq(w, Len(w) - Len(s) + 1, Len(w)) = s

\* sub in text
Contains(text, sub) ==
    \E i \in 1..(Len(text) - Len(sub) + 1) : SubSeq(text, i, i + Len(sub) - 1) = sub

-----------------------------------------------------------------------------
(* The rule tables, src/app.py lines 21-44 *)

MERGE_RULES ==
    (<<"i", "reu", "si", "doe">> :> <<"i", "reu", "doe">>) @@
    (<<"ga", "ra", "sa", "dae">> :> <<"i", "reu", "doe">>) @@
    (<<"sa", "ram", "deul">> :> <<"sa", "ram">>) @@
    (<<"ja", "deul">> :> <<"ja">>)

STOPWORDS_EXACT ==
    { <<"wi", "ha">>, <<"geot", "i">>, <<"neo", "hui">>, <<"neo", "hui", "ga">>,
      <<"neo", "hui", "neun">>, <<"nae", "ga">>, <<"ne", "ga">>,
      <<"geu">>, <<"i">>, <<"jeo">>, <<"nae">>, <<"ne">>, <<"na">>, <<"neo">>,
      <<"u", "ri">>,
      <<"iss", "da">>, <<"iss", "neun">>, <<"iss", "eo">>, <<"ha", "ni">>,
      <<"ha", "na">>, <<"ha", "ra">>, <<"i", "e">> }

SUFFIXES_ShortestFirst ==
    << <<"eun">>, <<"neun">>, <<"i">>, <<"ga">>, <<"eul">>, <<"reul">>, <<"ui">>,
       <<"wa">>, <<"gwa">>, <<"do">>, <<"ro">>, <<"kke">>, <<"yeo">>,
       <<"ha", "sa">>, <<"kke", "seo">>, <<"e", "ge">>, <<"eu", "ro">>,
       <<"e", "seo">>, <<"ha", "go">>, <<"i", "na">>, <<"kka", "ji">>,
       <<"bu", "teo">>, <<"i", "ra">>, <<"ni", "ra">>,
       <<"ha", "si", "mae">>, <<"ha", "deo", "ra">>, <<"ha", "ni", "ra">>,
       <<"ha", "si", "ni", "ra">>, <<"ha", "ri", "ro", "da">> >>

SUFFIXES ==
    << <<"ha", "sa">>, <<"ha", "si", "ni", "ra">>, <<"ha", "si", "mae">>,
       <<"ha", "deo", "ra">>, <<"ha", "ni", "ra">>, <<"ha", "ri", "ro", "da">>,
       <<"kke", "seo">>, <<"e", "ge">>, <<"eu", "ro">>, <<"e", "seo">>,
       <<"ha", "go">>, <<"i", "na">>, <<"kka", "ji">>, <<"bu", "teo">>,
       <<"i", "ra">>, <<"ni", "ra">>,
       <<"eun">>, <<"neun">>, <<"i">>, <<"ga">>, <<"eul">>, <<"reul">>, <<"ui">>,
       <<"wa">>, <<"gwa">>, <<"do">>, <<"ro">>, <<"kke">>, <<"yeo">> >>

IGNORE_STARTS == {"i", "geu", "jeo", "nae", "ne", "na", "neo", "u", "ja", "nu"}

IGNORE_ENDS ==
    {"geot", "deul", "deung", "jung", "ppun", "jjeum", "wi", "ga", "neun", "do",
     "reul", "eun"}

-----------------------------------------------------------------------------
(* normalize_word, src/app.py lines 46-52 *)

\* the for loop of normalize_word from the i-th suffix on
RECURSIVE StripFrom(_, _)
StripFrom(w, i) ==
    IF i > Len(SUFFIXES) THEN w
    ELSE LET suffix == SUFFIXES[i]
             s == SubSeq(w, 1, Len(w) - Len(suffix))
         IN  IF EndsWith(w, suffix) /\ Len(s) >= 1 THEN s ELSE StripFrom(w, i + 1)

normalize_word(w) == IF Len(w) < 2 THEN w ELSE StripFrom(w, 1)

(* is_stop_pattern, src/app.py lines 54-58 *)

is_stop_pattern(w) ==
    IF Len(w) \notin {2, 3} THEN FALSE
    ELSE IF Contains(w, <<"neo", "hui">>) \/ Contains(w, <<"wi", "ha">>) THEN TRUE
    ELSE IF w[1] \in IGNORE_STARTS /\ w[Len(w)] \in IGNORE_ENDS THEN TRUE
    ELSE FALSE

-----------------------------------------------------------------------------
(* The DataFrame: rows in the order load_data sorts them, lines 93-114 *)

\* a book name outside ALL_BOOKS_ORDER, which pd.Categorical turns into NaN
NaN == <<"NaN">>

\* 창세기, the first entry of OT_BOOKS
Genesis == <<"chang", "se", "gi">>

Row(b, c, v, t) == [book |-> b, chapter |-> c, verse |-> v, text |-> t]

-----------------------------------------------------------------------------
(* collections.Counter and re.findall, as get_top_words_fast uses them *)

\* the characters r'\w' does not match
NonWordChars == {" ", ",", ".", "+", "[", "]", ":"}

IsWordChar(c) == c \notin NonWordChars

\* re.findall(r'\w+', text): the maximal runs of word characters, left to right
RECURSIVE Scan(_, _, _, _)
Scan(text, i, cur, acc) ==
    IF i > Len(text) THEN (IF cur = <<>> THEN acc ELSE Append(acc, cur))
    ELSE IF IsWordChar(text[i]) THEN Scan(text, i + 1, Append(cur, text[i]), acc)
    ELSE Scan(text, i + 1, <<>>, IF cur = <<>> THEN acc ELSE Append(acc, cur))

FindAll(text) == Scan(text, 1, <<>>, <<>>)

\* " ".join(texts)
RECURSIVE Join(_)
Join(texts) ==
    IF texts = <<>> THEN <<>>
    ELSE IF Len(texts) = 1 THEN texts[1]
    ELSE texts[1] \o <<" ">> \o Join(Tail(texts))

\* counter[key] += k on a Counter kept as its items (key, count) in insertion order
CounterAdd(counter, key, k) ==
    IF \E i \in DOMAIN counter : counter[i][1] = key
    THEN [i \in DOMAIN counter |->
             IF counter[i][1] = key THEN <<key, counter[i][2] + k>> ELSE counter[i]]
    ELSE Append(counter, <<key, k>>)

\* Counter(words)
RECURSIVE CounterOf(_, _)
CounterOf(words, counter) ==
    IF words = <<>> THEN counter
    ELSE CounterOf(Tail(words), CounterAdd(counter, Head(words), 1))

\* sorted(items, key=count, reverse=True): a stable sort, an item going behind
\* the items of the same count that come before it
InsertDesc_TiesReversed(sorted, item) ==
    LET k == Cardinality({i \in DOMAIN sorted : sorted[i][2] > item[2]})
    IN  SubSeq(sorted, 1, k) \o <<item>> \o SubSeq(sorted, k + 1, Len(sorted))

InsertDesc(sorted, item) ==
    LET k == Cardinality({i \in DOMAIN sorted : sorted[i][2] >= item[2]})
    IN  SubSeq(sorted, 1, k) \o <<item>> \o SubSeq(sorted, k + 1, Len(sorted))

RECURSIVE SortedDesc(_, _)
SortedDesc(items, sorted) ==
    IF items = <<>> THEN sorted
    ELSE SortedDesc(Tail(items), InsertDesc(sorted, Head(items)))

\* Counter.most_common(k), k an integer:
\* heapq.nlargest(k, items, key=count) == sorted(items, key=count, reverse=True)[:k]
most_common(counter, k) ==
    LET s == SortedDesc(counter, <<>>)
    IN  IF k <= 0 THEN <<>> ELSE SubSeq(s, 1, IF k < Len(s) THEN k ELSE Len(s))

-----------------------------------------------------------------------------
(* get_top_words_fast, src/app.py lines 121-142 *)

\* line 137 without its test of STOPWORDS_EXACT
IsNoise_PatternOnly(w, s) == is_stop_pattern(s) \/ is_stop_pattern(w)

\* line 137: the token is dropped as noise
IsNoise(w, s) ==
    s \in STOPWORDS_EXACT \/ is_stop_pattern(s) \/ is_stop_pattern(w)

\* the item the for loop is at
Item == raw_counter[idx]

InLoop == pc = "loop" /\ idx <= Len(raw_counter)

\* lines 122-125
TopEntry ==
    /\ pc = "get_top_words_fast"
    /\ raw_words' = FindAll(Join([i \in DOMAIN df |-> df[i].text]))
    /\ raw_counter' = CounterOf(raw_words', <<>>)
    /\ final_counter' = <<>>
    /\ idx' = 1
    /\ pc' = "loop"
    /\ UNCHANGED <<df, n, top_words, query, keyword, keywords, count, results,
                   mode, word, stem>>

\* lines 128-131: the raw token is a key of MERGE_RULES
LoopMergeWord ==
    /\ InLoop
    /\ Item[1] \in DOMAIN MERGE_RULES
    /\ final_counter' = CounterAdd(final_counter, MERGE_RULES[Item[1]], Item[2])
    /\ idx' = idx + 1
    /\ UNCHANGED <<pc, df, n, raw_words, raw_counter, top_words, query, keyword,
                   keywords, count, results, mode, word, stem>>

\* lines 132-136 counting under the stem instead of MERGE_RULES[stem]
LoopMergeStem_UnderStem ==
    /\ pc = "loop" /\ idx <= Len(raw_counter)
    /\ raw_counter[idx][1] \notin DOMAIN MERGE_RULES
    /\ LET s == normalize_word(raw_counter[idx][1])
       IN  /\ s \in DOMAIN MERGE_RULES
           /\ final_counter' = CounterAdd(final_counter, s, raw_counter[idx][2])
    /\ idx' = idx + 1
    /\ UNCHANGED <<pc, df, n, raw_words, raw_counter, top_words, query, keyword,
                   keywords, count, results, mode, word, stem>>

\* lines 132-136: the stem is a key of MERGE_RULES
LoopMergeStem ==
    /\ InLoop
    /\ Item[1] \notin DOMAIN MERGE_RULES
    /\ LET s == normalize_word(Item[1])
       IN  /\ s \in DOMAIN MERGE_RULES
           /\ final_counter' = CounterAdd(final_counter, MERGE_RULES[s], Item[2])
    /\ idx' = idx + 1
    /\ UNCHANGED <<pc, df, n, raw_words, raw_counter, top_words, query, keyword,
                   keywords, count, results, mode, word, stem>>

\* lines 137-138: the token is noise
LoopStop ==
    /\ InLoop
    /\ Item[1] \notin DOMAIN MERGE_RULES
    /\ LET s == normalize_word(Item[1])
       IN  /\ s \notin DOMAIN MERGE_RULES
           /\ IsNoise(Item[1], s)
    /\ idx' = idx + 1
    /\ UNCHANGED <<pc, df, n, raw_words, raw_counter, final_counter, top_words,
                   query, keyword, keywords, count, results, mode, word, stem>>

\* lines 139-140: the stem is counted
LoopCount ==
    /\ InLoop
    /\ Item[1] \notin DOMAIN MERGE_RULES
    /\ LET s == normalize_word(Item[1])
       IN  /\ s \notin DOMAIN MERGE_RULES
           /\ ~IsNoise(Item[1], s)
           /\ Len(s) > 1
           /\ final_counter' = CounterAdd(final_counter, s, Item[2])
    /\ idx' = idx + 1
    /\ UNCHANGED <<pc, df, n, raw_words, raw_counter, top_words, query, keyword,
                   keywords, count, results, mode, word, stem>>

\* line 139, the condition failing: a stem of one character is not counted
LoopShort ==
    /\ InLoop
    /\ Item[1] \notin DOMAIN MERGE_RULES
    /\ LET s == normalize_word(Item[1])
       IN  /\ s \notin DOMAIN MERGE_RULES
           /\ ~IsNoise(Item[1], s)
           /\ ~(Len(s) > 1)
    /\ idx' = idx + 1
    /\ UNCHANGED <<pc, df, n, raw_words, raw_counter, final_counter, top_words,
                   query, keyword, keywords, count, results, mode, word, stem>>

\* line 142, where the argument n is read: the model draws it here
TopReturn ==
    /\ pc = "loop"
    /\ idx > Len(raw_counter)
    /\ \E k \in 0..MaxN :
          /\ n' = k
          /\ top_words' = most_common(final_counter, k)
    /\ pc' = "returned"
    /\ UNCHANGED <<df, raw_words, raw_counter, final_counter, idx, query,
                   keyword, keywords, count, results, mode, word, stem>>

Next ==
    \/ TopEntry
    \/ LoopMergeWord
    \/ LoopMergeStem
    \/ LoopStop
    \/ LoopCount
    \/ LoopShort
    \/ TopReturn

-----------------------------------------------------------------------------
(* The verses handed to get_top_words_fast *)

\* a verse text of the tokens ts: "t1, t2, t3."
RECURSIVE Sentence(_)
Sentence(ts) ==
    IF ts = <<>> THEN <<>>
    ELSE IF Len(ts) = 1 THEN ts[1] \o <<".">>
    ELSE ts[1] \o <<",", " ">> \o Sentence(Tail(ts))

\* the rows of one book holding the tokens ts, VerseTokens tokens to a verse
Verses(ts) ==
    LET rows == (Len(ts) + VerseTokens - 1) \div VerseTokens
        last(i) == IF i * VerseTokens < Len(ts) THEN i * VerseTokens ELSE Len(ts)
    IN  [i \in 1..rows |->
            Row(Genesis, 1, i, Sentence(SubSeq(ts, (i - 1) * VerseTokens + 1, last(i))))]

\* 사람들, 사람들이, 사람, 자들, 우리, 하나님이, 것이
TopPool ==
    { <<"sa", "ram", "deul">>, <<"sa", "ram", "deul", "i">>, <<"sa", "ram">>,
      <<"ja", "deul">>, <<"u", "ri">>, <<"ha", "na", "nim", "i">>, <<"geot", "i">> }

\* every stopword and every key of MERGE_RULES, and
\* 자들은, 사람들이, 그것, 그것이, 우리는, 하나님이, 이르되
WidePool ==
    STOPWORDS_EXACT \cup DOMAIN MERGE_RULES \cup
    { <<"ja", "deul", "eun">>, <<"sa", "ram", "deul", "i">>, <<"geu", "geot">>,
      <<"geu", "geot", "i">>, <<"u", "ri", "neun">>, <<"ha", "na", "nim", "i">>,
      <<"i", "reu", "doe">> }

InitTop(pool, tokens) ==
    /\ pc = "get_top_words_fast"
    /\ \E ts \in SeqsUpTo(pool, tokens) : df = Verses(ts)
    /\ n = 0
    /\ raw_words = <<>> /\ raw_counter = <<>> /\ final_counter = <<>>
    /\ idx = 0 /\ top_words = <<>>
    /\ query = <<>> /\ keyword = <<>> /\ keywords = <<>>
    /\ count = 0 /\ results = <<>> /\ mode = "none"
    /\ word = <<>> /\ stem = <<>>

Init == InitTop(TopPool, MaxTokens)

Spec == Init /\ [][Next]_vars

InitWide == InitTop(WidePool, WideTokens)

SpecWide == InitWide /\ [][Next]_vars

-----------------------------------------------------------------------------
(* str methods, as search_word_in_bible uses them *)

\* str.strip() without its leading whitespace
RECURSIVE LStrip(_)
LStrip(s) == IF s # <<>> /\ Head(s) = " " THEN LStrip(Tail(s)) ELSE s

\* str.strip() without its trailing whitespace
RECURSIVE RStrip(_)
RStrip(s) ==
    IF s # <<>> /\ s[Len(s)] = " " THEN RStrip(SubSeq(s, 1, Len(s) - 1)) ELSE s

\* keyword.strip() left out
Strip_Identity(s) == s

\* str.strip()
Strip(s) == RStrip(LStrip(s))

\* str.split('+') from position i on, cur being the piece under way
RECURSIVE SplitFrom(_, _, _)
SplitFrom(s, i, cur) ==
    IF i > Len(s) THEN <<cur>>
    ELSE IF s[i] = "+" THEN <<cur>> \o SplitFrom(s, i + 1, <<>>)
    ELSE SplitFrom(s, i + 1, Append(cur, s[i]))

Split(s) == SplitFrom(s, 1, <<>>)

\* [k.strip() for k in pieces if k.strip()]
RECURSIVE StripAll(_)
StripAll(pieces) ==
    IF pieces = <<>> THEN <<>>
    ELSE IF Strip(Head(pieces)) # <<>>
         THEN <<Strip(Head(pieces))>> \o StripAll(Tail(pieces))
         ELSE StripAll(Tail(pieces))

\* text.count(sub) counting overlapping occurrences too
RECURSIVE CountFrom_Overlapping(_, _, _)
CountFrom_Overlapping(text, sub, i) ==
    IF i + Len(sub) - 1 > Len(text) THEN 0
    ELSE IF SubSeq(text, i, i + Len(sub) - 1) = sub
         THEN 1 + CountFrom_Overlapping(text, sub, i + 1)
         ELSE CountFrom_Overlapping(text, sub, i + 1)

\* text.count(sub) from position i on, sub not empty: a scan from the left
\* that resumes behind each occurrence
RECURSIVE CountFrom(_, _, _)
CountFrom(text, sub, i) ==
    IF i + Len(sub) - 1 > Len(text) THEN 0
    ELSE IF SubSeq(text, i, i + Len(sub) - 1) = sub
         THEN 1 + CountFrom(text, sub, i + Len(sub))
         ELSE CountFrom(text, sub, i + 1)

\* any(k in text for k in keywords)
AnyIn(ks, text) == \E i \in DOMAIN ks : Contains(text, ks[i])

\* all(k in text for k in keywords)
AllIn(ks, text) == \A i \in DOMAIN ks : Contains(text, ks[i])

\* str(k) of an integer k >= 0
RECURSIVE Digits(_)
Digits(k) ==
    IF k < 10 THEN <<ToString(k)>> ELSE Digits(k \div 10) \o <<ToString(k % 10)>>

\* 알수없음
Unknown == <<"al", "su", "eops", "eum">>

\* f"[{book_name} {row['chapter']}:{row['verse']}] {text}"
Format(row) ==
    LET book_name == IF row.book # NaN THEN row.book ELSE Unknown
    IN  <<"[">> \o book_name \o <<" ">> \o Digits(row.chapter) \o <<":">>
        \o Digits(row.verse) \o <<"]", " ">> \o row.text

-----------------------------------------------------------------------------
(* search_word_in_bible, src/app.py lines 144-173 *)

\* lines 145-146: the stripped keyword is empty
SearchEmpty ==
    /\ pc = "search_word_in_bible"
    /\ keyword' = Strip(query)
    /\ keyword' = <<>>
    /\ count' = 0 /\ results' = <<>> /\ mode' = ""
    /\ pc' = "returned"
    /\ UNCHANGED <<df, n, raw_words, raw_counter, final_counter, idx, top_words,
                   query, keywords, word, stem>>

\* lines 145-153: an A+B query
SearchAnd ==
    /\ pc = "search_word_in_bible"
    /\ keyword' = Strip(query)
    /\ keyword' # <<>>
    /\ "+" \in Range(keyword')
    /\ keywords' = StripAll(Split(keyword'))
    /\ count' = 0 /\ results' = <<>>
    /\ idx' = 1
    /\ pc' = "and_loop"
    /\ UNCHANGED <<df, n, raw_words, raw_counter, final_counter, top_words,
                   query, mode, word, stem>>

\* lines 145-165: a single keyword
SearchWord ==
    /\ pc = "search_word_in_bible"
    /\ keyword' = Strip(query)
    /\ keyword' # <<>>
    /\ "+" \notin Range(keyword')
    /\ count' = 0 /\ results' = <<>>
    /\ idx' = 1
    /\ pc' = "word_loop"
    /\ UNCHANGED <<df, n, raw_words, raw_counter, final_counter, top_words,
                   query, keywords, mode, word, stem>>

\* lines 154-160: the row holds every piece
AndMatch ==
    /\ pc = "and_loop" /\ idx <= Len(df)
    /\ AllIn(keywords, df[idx].text)
    /\ count' = count + 1
    /\ results' = Append(results, Format(df[idx]))
    /\ idx' = idx + 1
    /\ UNCHANGED <<pc, df, n, raw_words, raw_counter, final_counter, top_words,
                   query, keyword, keywords, mode, word, stem>>

\* lines 154-156: the row lacks a piece
AndSkip ==
    /\ pc = "and_loop" /\ idx <= Len(df)
    /\ ~AllIn(keywords, df[idx].text)
    /\ idx' = idx + 1
    /\ UNCHANGED <<pc, df, n, raw_words, raw_counter, final_counter, top_words,
                   query, keyword, keywords, count, results, mode, word, stem>>

\* line 161
AndReturn ==
    /\ pc = "and_loop" /\ idx > Len(df)
    /\ mode' = "verse"
    /\ pc' = "returned"
    /\ UNCHANGED <<df, n, raw_words, raw_counter, final_counter, idx, top_words,
                   query, keyword, keywords, count, results, word, stem>>

\* lines 166-172: the row holds the keyword
WordMatch ==
    /\ pc = "word_loop" /\ idx <= Len(df)
    /\ LET c == CountFrom(df[idx].text, keyword, 1)
       IN  /\ c > 0
           /\ count' = count + c
    /\ results' = Append(results, Format(df[idx]))
    /\ idx' = idx + 1
    /\ UNCHANGED <<pc, df, n, raw_words, raw_counter, final_counter, top_words,
                   query, keyword, keywords, mode, word, stem>>

\* lines 166-169: the row does not hold the keyword
WordSkip ==
    /\ pc = "word_loop" /\ idx <= Len(df)
    /\ ~(CountFrom(df[idx].text, keyword, 1) > 0)
    /\ idx' = idx + 1
    /\ UNCHANGED <<pc, df, n, raw_words, raw_counter, final_counter, top_words,
                   query, keyword, keywords, count, results, mode, word, stem>>

\* line 173
WordReturn ==
    /\ pc = "word_loop" /\ idx > Len(df)
    /\ mode' = "word"
    /\ pc' = "returned"
    /\ UNCHANGED <<df, n, raw_words, raw_counter, final_counter, idx, top_words,
                   query, keyword, keywords, count, results, word, stem>>

NextSearch ==
    \/ SearchEmpty
    \/ SearchAnd
    \/ SearchWord
    \/ AndMatch
    \/ AndSkip
    \/ AndReturn
    \/ WordMatch
    \/ WordSkip
    \/ WordReturn

-----------------------------------------------------------------------------
(* The verses and the queries handed to search_word_in_bible *)

\* the characters of the verse texts: 사, 랑
TextChars == {"sa", "rang"}

\* the characters of the queries
QueryChars == TextChars \cup {"+", " "}

RECURSIVE TotalLen(_)
TotalLen(texts) == IF texts = <<>> THEN 0 ELSE Len(Head(texts)) + TotalLen(Tail(texts))

\* the rows holding the texts: the first KnownRows are verses of 창세기 1, the
\* rows behind them verses of a book load_data could not place, sorted last
Frame(texts) ==
    [i \in DOMAIN texts |->
        IF i <= KnownRows THEN Row(Genesis, 1, i, texts[i])
        ELSE Row(NaN, 1, i - KnownRows, texts[i])]

SearchTexts ==
    {ts \in SeqsUpTo(SeqsUpTo(TextChars, MaxChars), MaxVerses) :
        TotalLen(ts) <= MaxChars}

InitSearch ==
    /\ pc = "search_word_in_bible"
    /\ \E ts \in SearchTexts : df = Frame(ts)
    /\ query \in SeqsUpTo(QueryChars, MaxQueryLen)
    /\ n = 0
    /\ raw_words = <<>> /\ raw_counter = <<>> /\ final_counter = <<>>
    /\ idx = 0 /\ top_words = <<>>
    /\ keyword = <<>> /\ keywords = <<>>
    /\ count = 0 /\ results = <<>> /\ mode = "none"
    /\ word = <<>> /\ stem = <<>>

SpecSearch == InitSearch /\ [][NextSearch]_vars

-----------------------------------------------------------------------------
(* The call normalize_word(word) on its own *)

\* the characters the words handed to normalize_word are made of
NormChars == {"ha", "si", "ni", "ra", "eu", "ro", "sa"}

NormWords == SeqsUpTo(NormChars, MaxWordLen)

InitNormalize ==
    /\ pc = "normalize_word"
    /\ word \in NormWords
    /\ df = <<>> /\ n = 0
    /\ raw_words = <<>> /\ raw_counter = <<>> /\ final_counter = <<>>
    /\ idx = 0 /\ top_words = <<>>
    /\ query = <<>> /\ keyword = <<>> /\ keywords = <<>>
    /\ count = 0 /\ results = <<>> /\ mode = "none"
    /\ stem = <<>>

NormalizeWord ==
    /\ pc = "normalize_word"
    /\ stem' = normalize_word(word)
    /\ pc' = "normalized"
    /\ UNCHANGED <<df, n, raw_words, raw_counter, final_counter, idx, top_words,
                   query, keyword, keywords, count, results, mode, word>>

NextNormalize == NormalizeWord

SpecNormalize == InitNormalize /\ [][NextNormalize]_vars

-----------------------------------------------------------------------------
(* Notions the statements about get_top_words_fast are made of *)

\* the count a Counter holds for key (0 for a missing key)
CountIn(counter, key) ==
    IF \E i \in DOMAIN counter : counter[i][1] = key
    THEN (CHOOSE e \in Range(counter) : e[1] = key)[2]
    ELSE 0

Keys(counter) == {counter[i][1] : i \in DOMAIN counter}

RECURSIVE SumCounts(_)
SumCounts(counter) ==
    IF counter = <<>> THEN 0 ELSE Head(counter)[2] + SumCounts(Tail(counter))

\* the length 2-or-3 pattern rule, stated from the rule tables
PatternRule(w) ==
    /\ Len(w) \in {2, 3}
    /\ \/ \E i \in 1..(Len(w) - 1) :
              <<w[i], w[i + 1]>> \in {<<"neo", "hui">>, <<"wi", "ha">>}
       \/ w[1] \in IGNORE_STARTS /\ w[Len(w)] \in IGNORE_ENDS

\* the final form of a raw token: merge rule, suffix stripping, merge re-check
FinalForm(w) ==
    IF w \in DOMAIN MERGE_RULES THEN MERGE_RULES[w]
    ELSE IF normalize_word(w) \in DOMAIN MERGE_RULES
         THEN MERGE_RULES[normalize_word(w)]
         ELSE normalize_word(w)

\* the raw token is noise: its raw form or its stem is a stopword or matches
\* the pattern rule
Rejected(w) ==
    \/ w \in STOPWORDS_EXACT \/ normalize_word(w) \in STOPWORDS_EXACT
    \/ PatternRule(w) \/ PatternRule(normalize_word(w))

\* the positions of the loop's past items
Done == 1..(idx - 1)

\* the loop is handling an item and leaves the frequency table alone
StepOn(P(_)) == (InLoop /\ P(Item[1])) => final_counter' = final_counter

-----------------------------------------------------------------------------
(* C1 *)

\* C1: every word of the list get_top_words_fast returns has length >= 2,
\* also when it is the value of a MERGE_RULES entry.
ReturnedWordsLong ==
    pc = "returned" => \A i \in DOMAIN top_words : Len(top_words[i][1]) >= 2

(* C2 *)

PatternHit(w) == PatternRule(w) \/ PatternRule(normalize_word(w))

\* C2: a raw token whose raw form or whose stem matches the pattern rule adds
\* nothing to the frequency table, keys of MERGE_RULES included.
PatternTokensAddNothing == [][StepOn(PatternHit)]_vars

(* C3 *)

IsStopword(w) == w \in STOPWORDS_EXACT

\* C3: a raw token that is a member of STOPWORDS_EXACT adds to no entry of the
\* frequency table, and no member of STOPWORDS_EXACT is a key of the table or
\* a word of the returned list.
StopwordsExcluded ==
    [][ /\ StepOn(IsStopword)
        /\ Keys(final_counter') \cap STOPWORDS_EXACT = {}
        /\ Keys(top_words') \cap STOPWORDS_EXACT = {} ]_vars

\* 우리 (a stopword that is its own stem) and 것이 (a stopword whose stem 것 is
\* none) were both handled, and the table is empty
StopwordsExcludedWitness ==
    /\ pc = "returned"
    /\ raw_words = << <<"u", "ri">>, <<"geot", "i">> >>
    /\ normalize_word(<<"geot", "i">>) \notin STOPWORDS_EXACT
    /\ final_counter = <<>>
    /\ top_words = <<>>

(* C5 *)

\* the step counts the item under form v and under no other form
CountedUnder(v) ==
    /\ CountIn(final_counter', v) = CountIn(final_counter, v) + Item[2]
    /\ \A f \in (Keys(final_counter) \cup Keys(final_counter')) \ {v} :
           CountIn(final_counter', f) = CountIn(final_counter, f)

MergeValues == {MERGE_RULES[k] : k \in DOMAIN MERGE_RULES}

\* C5: a raw token equal to a key k of MERGE_RULES, or whose stem equals k, is
\* counted under MERGE_RULES[k] and under no other form, and a key that is no
\* value is never a word of the result.
MergeConsistency ==
    [][ /\ \A k \in DOMAIN MERGE_RULES :
              (InLoop /\ (Item[1] = k \/ normalize_word(Item[1]) = k))
                  => CountedUnder(MERGE_RULES[k])
        /\ Keys(top_words') \cap (DOMAIN MERGE_RULES \ MergeValues) = {} ]_vars

\* 사람들이 (stem 사람들, a key) and 사람들 (a key) are both under 사람
MergeConsistencyWitness ==
    /\ pc = "returned"
    /\ raw_words = << <<"sa", "ram", "deul", "i">>, <<"sa", "ram", "deul">> >>
    /\ n >= 1
    /\ top_words = << << <<"sa", "ram">>, 2 >> >>

(* C6 *)

\* the raw token is accepted: it is counted under FinalForm
Accepted(w) ==
    \/ w \in DOMAIN MERGE_RULES
    \/ normalize_word(w) \in DOMAIN MERGE_RULES
    \/ /\ normalize_word(w) \notin STOPWORDS_EXACT
       /\ ~PatternRule(w) /\ ~PatternRule(normalize_word(w))
       /\ Len(normalize_word(w)) > 1

AcceptedAt == {i \in DOMAIN raw_words : Accepted(raw_words[i])}

AcceptedForms == {FinalForm(raw_words[i]) : i \in AcceptedAt}

Occurrences(f) == Cardinality({i \in AcceptedAt : FinalForm(raw_words[i]) = f})

\* the position in the input of the first accepted raw token of form f
FirstAt(f) ==
    CHOOSE i \in AcceptedAt :
        /\ FinalForm(raw_words[i]) = f
        /\ \A j \in AcceptedAt : FinalForm(raw_words[j]) = f => i <= j

Min(a, b) == IF a < b THEN a ELSE b

\* C6: the result has min(n, number of distinct accepted forms) entries, each a
\* distinct accepted form with its count, in non-increasing order of count, no
\* omitted form counting more than a returned one, and forms of equal count in
\* the order of their first accepted raw tokens.
TopOrder ==
    pc = "returned" =>
        /\ Len(top_words) = Min(n, Cardinality(AcceptedForms))
        /\ df = <<>> => top_words = <<>>
        /\ \A i \in DOMAIN top_words :
              /\ top_words[i][1] \in AcceptedForms
              /\ top_words[i][2] = Occurrences(top_words[i][1])
        /\ \A i, j \in DOMAIN top_words :
              i < j =>
                 /\ top_words[i][1] # top_words[j][1]
                 /\ top_words[i][2] >= top_words[j][2]
                 /\ top_words[i][2] = top_words[j][2]
                       => FirstAt(top_words[i][1]) < FirstAt(top_words[j][1])
        /\ \A f \in AcceptedForms \ Keys(top_words) :
              \A i \in DOMAIN top_words :
                 /\ Occurrences(f) <= top_words[i][2]
                 /\ Occurrences(f) = top_words[i][2]
                       => FirstAt(top_words[i][1]) < FirstAt(f)

\* three forms of count 1: n = 2 keeps the two met first, in input order, and
\* omits the one met last
TopOrderWitness ==
    /\ pc = "returned"
    /\ raw_words = << <<"ha", "na", "nim", "i">>, <<"sa", "ram", "deul">>,
                      <<"ja", "deul">> >>
    /\ n = 2
    /\ top_words = << << <<"ha", "na", "nim">>, 1 >>, << <<"sa", "ram">>, 1 >> >>

(* C7 *)

\* the raw tokens that are neither noise nor reduced to length <= 1
Kept == {i \in DOMAIN raw_words :
            ~Rejected(raw_words[i]) /\ Len(FinalForm(raw_words[i])) > 1}

TokensOf(frame) == FindAll(Join([i \in DOMAIN frame |-> frame[i].text]))

\* C7: when n is at least the number of distinct forms, the returned counts
\* sum to the number of raw tokens that are neither rejected as noise nor
\* reduced to a final form of length <= 1.
CountConservation ==
    (pc = "returned" /\ n >= Len(final_counter)) =>
        /\ raw_words = TokensOf(df)
        /\ SumCounts(top_words) = Cardinality(Kept)

-----------------------------------------------------------------------------
(* Notions the statements about search_word_in_bible are made of *)

Blank(s) == \A i \in DOMAIN s : s[i] = " "

\* s without the whitespace at its two ends
Trimmed(s) ==
    IF Blank(s) THEN <<>>
    ELSE LET a == CHOOSE i \in DOMAIN s : s[i] # " " /\ \A j \in 1..(i - 1) : s[j] = " "
             b == CHOOSE i \in DOMAIN s :
                      s[i] # " " /\ \A j \in (i + 1)..Len(s) : s[j] = " "
         IN  SubSeq(s, a, b)

\* the pieces of s between its '+' signs, the ends of s counting as signs
PiecesOf(s) ==
    LET sign(i) == i = 0 \/ i = Len(s) + 1 \/ s[i] = "+"
    IN  {SubSeq(s, a + 1, b - 1) :
            <<a, b>> \in {p \in (0..Len(s)) \X (1..(Len(s) + 1)) :
                            /\ p[1] < p[2] /\ sign(p[1]) /\ sign(p[2])
                            /\ \A i \in (p[1] + 1)..(p[2] - 1) : ~sign(i)}}

\* the trimmed, non-empty pieces of the query
QueryPieces == {Trimmed(p) : p \in PiecesOf(Trimmed(query))} \ {<<>>}

\* the passages of the rows at the positions in S, in input order
RECURSIVE Passages(_, _)
Passages(S, i) ==
    IF i > Len(df) THEN <<>>
    ELSE IF i \in S THEN <<Format(df[i])>> \o Passages(S, i + 1)
    ELSE Passages(S, i + 1)

\* where sub starts in text
StartsOf(text, sub) ==
    {i \in 1..(Len(text) - Len(sub) + 1) : SubSeq(text, i, i + Len(sub) - 1) = sub}

\* the most occurrences of sub in text no two of which overlap
NonOverlapping(text, sub) ==
    LET apart(S) == \A i, j \in S : i < j => j - i >= Len(sub)
        sizes == {Cardinality(S) : S \in {T \in SUBSET StartsOf(text, sub) : apart(T)}}
    IN  CHOOSE m \in sizes : \A k \in sizes : k <= m

RECURSIVE SumOver(_, _)
SumOver(sub, i) ==
    IF i > Len(df) THEN 0 ELSE NonOverlapping(df[i].text, sub) + SumOver(sub, i + 1)

-----------------------------------------------------------------------------
(* C8 *)

HoldsAllPieces == {i \in DOMAIN df : \A p \in QueryPieces : Contains(df[i].text, p)}

\* C8: a query holding '+' returns mode "verse", the passages of exactly the
\* verses whose text holds every trimmed, non-empty piece of the query, in
\* input order, and their number as the count.
ConjunctiveSearch ==
    (pc = "returned" /\ "+" \in Range(Trimmed(query))) =>
        /\ mode = "verse"
        /\ results = Passages(HoldsAllPieces, 1)
        /\ count = Cardinality(HoldsAllPieces)
        /\ count = Len(results)

\* 사+랑 over the verses 사랑 and 사: both hold 사, the first alone holds 랑 too
ConjunctiveSearchWitness ==
    /\ pc = "returned"
    /\ query = <<"sa", "+", "rang">>
    /\ Len(df) = 2
    /\ df[1].text = <<"sa", "rang">> /\ df[2].text = <<"sa">>
    /\ count = 1
    /\ results = <<Format(df[1])>>

(* C9 *)

HoldsKeyword == {i \in DOMAIN df : StartsOf(df[i].text, Trimmed(query)) # {}}

\* C9: a non-empty query without '+' returns mode "word", as count the sum over
\* the verses of the non-overlapping occurrences of the query in the text, and
\* the passage of each verse with an occurrence once, of no other verse.
OccurrenceSearch ==
    (pc = "returned" /\ ~Blank(query) /\ "+" \notin Range(query)) =>
        /\ mode = "word"
        /\ count = SumOver(Trimmed(query), 1)
        /\ results = Passages(HoldsKeyword, 1)
        /\ count >= Len(results)

\* 사사 in 사사사: two places to start at, one occurrence counted, one passage
OccurrenceSearchWitness ==
    /\ pc = "returned"
    /\ query = <<"sa", "sa">>
    /\ Len(df) = 1
    /\ df[1].text = <<"sa", "sa", "sa">>
    /\ Cardinality(StartsOf(df[1].text, query)) = 2
    /\ count = 1
    /\ Len(results) = 1

(* C10 *)

\* C10: a query that is empty or only whitespace returns count 0, no passage
\* and the empty mode, in one step that visits no row and leaves the rows alone.
EmptyQuery ==
    [][ (pc = "search_word_in_bible" /\ Blank(query)) =>
            /\ pc' = "returned"
            /\ count' = 0 /\ results' = <<>> /\ mode' = ""
            /\ idx' = idx /\ df' = df ]_vars

\* a query of two spaces over a verse that is not empty has returned
EmptyQueryWitness ==
    /\ pc = "returned"
    /\ query = <<" ", " ">>
    /\ Len(df) >= 1 /\ df[1].text # <<>>
    /\ idx = 0
    /\ count = 0 /\ results = <<>> /\ mode = ""

-----------------------------------------------------------------------------
(* C4 *)

\* the entries of SUFFIXES that w ends with and that leave a remainder
Qualifying(w) ==
    {s \in Range(SUFFIXES) : EndsWith(w, s) /\ Len(w) - Len(s) >= 1}

\* the entries of Qualifying(w) that no other entry is longer than
Longest(w) == {s \in Qualifying(w) : \A t \in Qualifying(w) : Len(t) <= Len(s)}

\* C4: for every token of length >= 2, normalize_word removes the longest entry
\* of SUFFIXES that the token ends with and that leaves a remainder of length
\* >= 1, and returns the token unchanged only when no entry qualifies.
SuffixPrecedence ==
    (pc = "normalized" /\ Len(word) >= 2) =>
        /\ Qualifying(word) = {} => stem = word
        /\ Qualifying(word) # {} =>
              /\ stem # word
              /\ \E s \in Longest(word) : stem = SubSeq(word, 1, Len(word) - Len(s))

\* a word ending in a long entry and in a shorter entry (ha-ni-ra and ni-ra,
\* ra being no entry), stripped of the long one
SuffixPrecedenceWitness ==
    /\ pc = "normalized"
    /\ word = <<"sa", "ha", "ni", "ra">>
    /\ Cardinality(Qualifying(word)) = 2
    /\ stem = <<"sa">>

====
